---- MODULE Spec2Model ----
(***************************************************************************)
(* A model of the git-scripts MCP bridge                                   *)
(* (src/mcp-server/git_scripts_mcp/server.py): the dispatcher call_tool,   *)
(* the script locator _get_script_path, the process runner _run_command    *)
(* and the ten tool handlers, as a state machine over in-flight calls.     *)
(***************************************************************************)
EXTENDS Integers, Sequences, FiniteSets, TLC

(***************************************************************************)
(* Bounds of the model.                                                    *)
(***************************************************************************)
\* How many bytes the children of one call write to stdout and stderr in total.
MaxBytes == 1
\* How many scripts may be absent from the install root at the same time.
MaxMissing == 1

(***************************************************************************)
(* Python values that can arrive in the arguments mapping.  Every value is *)
(* a record of the same shape so that values of different Python types can *)
(* be compared.  "absent" stands for a key that is not in the mapping.     *)
(***************************************************************************)
Absent == [t |-> "absent", b |-> FALSE, s |-> "", n |-> 0]
None == [t |-> "none", b |-> FALSE, s |-> "", n |-> 0]
Bool(x) == [t |-> "bool", b |-> x, s |-> "", n |-> 0]
Str(x) == [t |-> "str", b |-> FALSE, s |-> x, n |-> 0]
IntV(x) == [t |-> "int", b |-> FALSE, s |-> "", n |-> x]

\* Python truthiness, as used by `if args.get(...)`, `if not pattern`, all([...]).
Truthy(v) ==
  CASE v.t = "bool" -> v.b
    [] v.t = "str" -> v.s # ""
    [] v.t = "int" -> v.n # 0
    [] OTHER -> FALSE

\* dict.get(key): None when the key is absent.
Get(args, key) == IF args[key].t = "absent" THEN None ELSE args[key]

\* dict.get(key, default): the default only when the key is absent.
GetDefault(args, key, default) == IF args[key].t = "absent" THEN Str(default) ELSE args[key]

(***************************************************************************)
(* Text and bytes.  A str is a sequence of units: a code point, or an      *)
(* opaque well-formed literal of the program text.  A bytes object is a    *)
(* sequence of units: a raw byte, or the UTF-8 encoding of such a literal. *)
(***************************************************************************)
Lit(s) == IF s = "" THEN <<>> ELSE <<[k |-> "lit", s |-> s, c |-> 0]>>
Cp(c) == [k |-> "cp", s |-> "", c |-> c]
Byte(b) == [k |-> "byte", s |-> "", c |-> b]

\* str(value) as an f-string formats it.
Format(v) ==
  CASE v.t = "str" -> Lit(v.s)
    [] v.t = "bool" -> Lit(IF v.b THEN "True" ELSE "False")
    [] v.t = "int" -> Lit(ToString(v.n))
    [] OTHER -> Lit("None")

IsCont(u) == u.k = "byte" /\ u.c >= 128 /\ u.c <= 191

\* How many bytes the UTF-8 sequence led by byte b has (0: b cannot lead).
SeqLen(b) ==
  IF b < 128 THEN 1
  ELSE IF b >= 194 /\ b <= 223 THEN 2
  ELSE IF b >= 224 /\ b <= 239 THEN 3
  ELSE IF b >= 240 /\ b <= 244 THEN 4
  ELSE 0

\* The range allowed for the second byte after lead byte b.
SecondOk(b, c) ==
  CASE b = 224 -> c >= 160 /\ c <= 191
    [] b = 237 -> c >= 128 /\ c <= 159
    [] b = 240 -> c >= 144 /\ c <= 191
    [] b = 244 -> c >= 128 /\ c <= 143
    [] OTHER -> c >= 128 /\ c <= 191

RECURSIVE DecodeFrom(_, _)
\* bytes.decode() from position i on: [ok, text]; ok = FALSE is UnicodeDecodeError.
DecodeFrom(bs, i) ==
  IF i > Len(bs) THEN [ok |-> TRUE, text |-> <<>>]
  ELSE IF bs[i].k = "lit"
    THEN LET rest == DecodeFrom(bs, i + 1)
         IN  [ok |-> rest.ok, text |-> <<bs[i]>> \o rest.text]
  ELSE LET b == bs[i].c
           n == SeqLen(b)
       IN  IF n = 0 \/ i + n - 1 > Len(bs) THEN [ok |-> FALSE, text |-> <<>>]
           ELSE IF \E j \in (i + 1)..(i + n - 1) : ~IsCont(bs[j])
             THEN [ok |-> FALSE, text |-> <<>>]
           ELSE IF n > 1 /\ ~SecondOk(b, bs[i + 1].c) THEN [ok |-> FALSE, text |-> <<>>]
           ELSE LET cp == CASE n = 1 -> b
                            [] n = 2 -> (b - 192) * 64 + (bs[i + 1].c - 128)
                            [] n = 3 -> (b - 224) * 4096 + (bs[i + 1].c - 128) * 64
                                          + (bs[i + 2].c - 128)
                            [] OTHER -> (b - 240) * 262144 + (bs[i + 1].c - 128) * 4096
                                          + (bs[i + 2].c - 128) * 64 + (bs[i + 3].c - 128)
                    rest == DecodeFrom(bs, i + n)
                IN  [ok |-> rest.ok, text |-> <<Cp(cp)>> \o rest.text]

\* bytes.decode(): strict UTF-8.
Decode(bs) == DecodeFrom(bs, 1)

\* The UTF-8 bytes of one unit of text.
EncodeUnit(u) ==
  IF u.k = "lit" THEN <<u>>
  ELSE IF u.c < 128 THEN <<Byte(u.c)>>
  ELSE IF u.c < 2048 THEN <<Byte(192 + (u.c \div 64)), Byte(128 + (u.c % 64))>>
  ELSE IF u.c < 65536
    THEN <<Byte(224 + (u.c \div 4096)), Byte(128 + ((u.c \div 64) % 64)),
           Byte(128 + (u.c % 64))>>
  ELSE <<Byte(240 + (u.c \div 262144)), Byte(128 + ((u.c \div 4096) % 64)),
         Byte(128 + ((u.c \div 64) % 64)), Byte(128 + (u.c % 64))>>

RECURSIVE Encode(_)
\* str.encode().
Encode(text) == IF text = <<>> THEN <<>> ELSE EncodeUnit(Head(text)) \o Encode(Tail(text))

\* Unicode whitespace, as str.strip() sees it.
IsSpace(u) ==
  /\ u.k = "cp"
  /\ u.c \in (9..13) \cup (28..32) \cup {133, 160, 5760, 8232, 8233, 8239, 8287, 12288}
              \cup (8192..8202)

RECURSIVE LStrip(_)
LStrip(text) ==
  IF text # <<>> /\ IsSpace(Head(text)) THEN LStrip(Tail(text)) ELSE text

RECURSIVE RStrip(_)
RStrip(text) ==
  IF text # <<>> /\ IsSpace(text[Len(text)])
    THEN RStrip(SubSeq(text, 1, Len(text) - 1))
    ELSE text

\* str.strip().
Strip(text) == RStrip(LStrip(text))

\* Whether sub occurs in text as a contiguous run of units.
Contains(text, sub) ==
  \E i \in 1..(Len(text) - Len(sub) + 1) : SubSeq(text, i, i + Len(sub) - 1) = sub

(***************************************************************************)
(* The catalog, the install root and the records the handlers exchange.    *)
(* Non-ASCII glyphs of the source's message literals are written as ASCII  *)
(* tags: "[x] " for the cross mark, "[ok] " for the check mark, and so on. *)
(***************************************************************************)
\* The keys of self.handlers.
Handlers ==
  {"git_undo", "git_redo", "git_recommit", "git_check_dup",
   "git_remove_redundant_commits", "git_branch_diff", "git_find_file",
   "git_diff_patch", "git_extract_conflict_files", "git_remerge_from_files"}

\* Every parameter name of the input schemas.
Params ==
  {"confirm", "message_only", "quiet", "remote_branch", "onto_branch", "apply",
   "branch1", "branch2", "pattern", "local", "commit1", "commit2", "file",
   "ours_path", "base_path", "theirs_path"}

\* The script files the handlers resolve under SCRIPT_DIR.
ScriptNames ==
  {"git-undo", "git-redo", "git-recommit", "git-check-dup",
   "git-remove-redundant-commits", "git-find_file", "git-diff-patch", "git-diff-123"}

\* str(SCRIPT_DIR / script_name).
ScriptPath(script_name) == "SCRIPT_DIR/" \o script_name

\* CallToolResult(content=[TextContent(text=...)]) and the same with isError=True.
Ok(text) == [isError |-> FALSE, text |-> text]
Err(text) == [isError |-> TRUE, text |-> text]
NoEnv == [isError |-> FALSE, text |-> Lit("<no envelope>")]

\* Exceptions: the type, str(e), and e.stderr (CalledProcessError only).
Exc(type, msg, stderr) == [type |-> type, msg |-> msg, stderr |-> stderr]
NoExc == Exc("none", <<>>, <<>>)

\* subprocess.CompletedProcess(returncode, stdout, stderr).
CompletedProcess(rc, out, err) == [returncode |-> rc, stdout |-> out, stderr |-> err]

\* What a stretch of handler code ends with: a returned envelope, a raised
\* exception, or a command awaited through _run_command.
Return(env, lk) ==
  [kind |-> "return", env |-> env, exc |-> NoExc, cmd |-> <<>>, input |-> None, lookups |-> lk]
Raise(exc, lk) ==
  [kind |-> "raise", env |-> NoEnv, exc |-> exc, cmd |-> <<>>, input |-> None, lookups |-> lk]
Run(cmd, input, lk) ==
  [kind |-> "run", env |-> NoEnv, exc |-> NoExc, cmd |-> cmd, input |-> input, lookups |-> lk]

\* A locator that trusts an earlier check and never looks at the directory.
_get_script_path_cached(script_name, fs) ==
  [ok |-> TRUE, path |-> ScriptPath(script_name), exc |-> NoExc,
   lookup |-> <<[name |-> script_name, found |-> TRUE]>>]

\* _get_script_path: the path when the file exists, FileNotFoundError otherwise.
_get_script_path(script_name, fs) ==
  IF script_name \in fs
    THEN [ok |-> TRUE, path |-> ScriptPath(script_name), exc |-> NoExc,
          lookup |-> <<[name |-> script_name, found |-> TRUE]>>]
    ELSE [ok |-> FALSE, path |-> ScriptPath(script_name),
          exc |-> Exc("FileNotFoundError",
                      Lit("Script not found: ") \o Lit(ScriptPath(script_name)), <<>>),
          lookup |-> <<[name |-> script_name, found |-> FALSE]>>]

\* The tail shared by the plain handlers: `if result.returncode == 0: return
\* CallToolResult(banner + stdout.decode())`, else the failure banner with
\* stderr.decode() and isError=True.  A failed decode raises UnicodeDecodeError.
UnicodeDecodeError == Exc("UnicodeDecodeError", Lit("'utf-8' codec can't decode byte"), <<>>)

Classify(okBanner, failBanner, result) ==
  IF result.returncode = 0
    THEN LET d == Decode(result.stdout)
         IN  IF d.ok THEN Return(Ok(Lit(okBanner) \o d.text), <<>>)
             ELSE Raise(UnicodeDecodeError, <<>>)
    ELSE LET d == Decode(result.stderr)
         IN  IF d.ok THEN Return(Err(Lit(failBanner) \o d.text), <<>>)
             ELSE Raise(UnicodeDecodeError, <<>>)

\* A confirm test that asks whether the key is present, not whether it is true.
ConfirmInput_present(args) == IF args["confirm"].t # "absent" THEN Str("y\n") ELSE None

\* input_text = "y\n" if args.get("confirm") else None
ConfirmInput(args) == IF Truthy(Get(args, "confirm")) THEN Str("y\n") ELSE None

(***************************************************************************)
(* The handlers.  Each is split where it awaits _run_command: the operator *)
(* named after the handler is the code up to the await, and the operator   *)
(* with the suffix _result is the code after it.                           *)
(***************************************************************************)
_handle_git_undo(args, fs) ==
  LET sp == _get_script_path("git-undo", fs)
  IN  IF ~sp.ok THEN Raise(sp.exc, sp.lookup)
      ELSE Run(<<Str(sp.path)>>, ConfirmInput(args), sp.lookup)

_handle_git_undo_result(args, result) ==
  Classify("[ok] Git undo completed successfully:\n\n", "[x] Git undo failed:\n", result)

_handle_git_redo(args, fs) ==
  LET sp == _get_script_path("git-redo", fs)
  IN  IF ~sp.ok THEN Raise(sp.exc, sp.lookup)
      ELSE Run(<<Str(sp.path)>>
                 \o (IF Truthy(Get(args, "message_only")) THEN <<Str("--message-only")>> ELSE <<>>),
               ConfirmInput(args), sp.lookup)

_handle_git_redo_result(args, result) ==
  Classify("[ok] Git redo completed successfully:\n\n", "[x] Git redo failed:\n", result)

_handle_git_recommit(args, fs) ==
  LET sp == _get_script_path("git-recommit", fs)
  IN  IF ~sp.ok THEN Raise(sp.exc, sp.lookup)
      ELSE Run(<<Str(sp.path)>>, ConfirmInput(args), sp.lookup)

_handle_git_recommit_result(args, result) ==
  Classify("[ok] Git recommit completed successfully:\n\n", "[x] Git recommit failed:\n", result)

\* A handler that tests `if remote_branch:` instead of comparing with the default.
_handle_git_check_dup_truthy(args, fs) ==
  LET sp == _get_script_path("git-check-dup", fs)
      remote_branch == GetDefault(args, "remote_branch", "origin/main")
  IN  IF ~sp.ok THEN Raise(sp.exc, sp.lookup)
      ELSE Run(<<Str(sp.path)>>
                 \o (IF Truthy(Get(args, "quiet")) THEN <<Str("--quiet")>> ELSE <<>>)
                 \o (IF Truthy(remote_branch) THEN <<remote_branch>> ELSE <<>>),
               None, sp.lookup)

_handle_git_check_dup(args, fs) ==
  LET sp == _get_script_path("git-check-dup", fs)
      remote_branch == GetDefault(args, "remote_branch", "origin/main")
  IN  IF ~sp.ok THEN Raise(sp.exc, sp.lookup)
      ELSE Run(<<Str(sp.path)>>
                 \o (IF Truthy(Get(args, "quiet")) THEN <<Str("--quiet")>> ELSE <<>>)
                 \o (IF remote_branch # Str("origin/main") THEN <<remote_branch>> ELSE <<>>),
               None, sp.lookup)

_handle_git_check_dup_result(args, result) ==
  IF result.returncode = 0
    THEN LET d == Decode(result.stdout)
         IN  IF ~d.ok THEN Raise(UnicodeDecodeError, <<>>)
             ELSE IF Strip(d.text) # <<>>
               THEN Return(Ok(Lit("[find] Duplicate commits found:\n\n") \o d.text), <<>>)
             ELSE Return(Ok(Lit("[ok] No duplicate commits detected.")), <<>>)
    ELSE LET d == Decode(result.stderr)
         IN  IF d.ok THEN Return(Err(Lit("[x] Git check-dup failed:\n") \o d.text), <<>>)
             ELSE Raise(UnicodeDecodeError, <<>>)

_handle_git_remove_redundant_commits(args, fs) ==
  LET sp == _get_script_path("git-remove-redundant-commits", fs)
      onto_branch == GetDefault(args, "onto_branch", "origin/main")
  IN  IF ~sp.ok THEN Raise(sp.exc, sp.lookup)
      ELSE Run(<<Str(sp.path)>>
                 \o (IF onto_branch # Str("origin/main") THEN <<Str("--onto"), onto_branch>> ELSE <<>>)
                 \o (IF Truthy(Get(args, "apply")) THEN <<Str("--apply")>> ELSE <<>>),
               None, sp.lookup)

_handle_git_remove_redundant_commits_result(args, result) ==
  Classify(IF Truthy(Get(args, "apply"))
             THEN "[ok] Git remove redundant commits - [fix] Applied changes:\n\n"
             ELSE "[ok] Git remove redundant commits - [find] Dry-run analysis:\n\n",
           "[x] Git remove redundant commits failed:\n", result)

\* A handler that appends --local whenever the key is present, whatever its value.
_handle_git_find_file_present(args, fs) ==
  LET sp == _get_script_path("git-find_file", fs)
      pattern == Get(args, "pattern")
  IN  IF ~sp.ok THEN Raise(sp.exc, sp.lookup)
      ELSE IF ~Truthy(pattern)
        THEN Return(Err(Lit("[x] Error: pattern parameter is required")), sp.lookup)
      ELSE Run(<<Str(sp.path), pattern>>
                 \o (IF Get(args, "local") # Absent THEN <<Str("--local")>> ELSE <<>>),
               None, sp.lookup)

_handle_git_find_file(args, fs) ==
  LET sp == _get_script_path("git-find_file", fs)
      pattern == Get(args, "pattern")
  IN  IF ~sp.ok THEN Raise(sp.exc, sp.lookup)
      ELSE IF ~Truthy(pattern)
        THEN Return(Err(Lit("[x] Error: pattern parameter is required")), sp.lookup)
      ELSE Run(<<Str(sp.path), pattern>>
                 \o (IF Truthy(Get(args, "local")) THEN <<Str("--local")>> ELSE <<>>),
               None, sp.lookup)

_handle_git_find_file_result(args, result) ==
  Classify("[search] Git find file results:\n\n", "[x] Git find file failed:\n", result)

\* A handler that builds the script path without calling _get_script_path.
_handle_git_diff_patch_unverified(args, fs) ==
  LET commit1 == Get(args, "commit1")
      commit2 == Get(args, "commit2")
  IN  IF ~Truthy(commit1) \/ ~Truthy(commit2)
        THEN Return(Err(Lit("[x] Error: commit1 and commit2 are required.")), <<>>)
      ELSE Run(<<Str(ScriptPath("git-diff-patch")), commit1, commit2>>, None, <<>>)

_handle_git_diff_patch(args, fs) ==
  LET sp == _get_script_path("git-diff-patch", fs)
      commit1 == Get(args, "commit1")
      commit2 == Get(args, "commit2")
  IN  IF ~sp.ok THEN Raise(sp.exc, sp.lookup)
      ELSE IF ~Truthy(commit1) \/ ~Truthy(commit2)
        THEN Return(Err(Lit("[x] Error: commit1 and commit2 are required.")), sp.lookup)
      ELSE Run(<<Str(sp.path), commit1, commit2>>, None, sp.lookup)

_handle_git_diff_patch_result(args, result) ==
  Classify("[ok] Patch comparison results:\n\n", "[x] Git diff-patch failed:\n", result)

\* except Exception as e: inside _handle_git_branch_diff.
_handle_git_branch_diff_except(exc) ==
  Return(Err(Lit("[x] Git branch diff failed: ") \o exc.msg), <<>>)

log_cmd(branch) ==
  <<Str("git"), Str("log"), Str("--oneline"), Str("--max-count=20"), branch>>

_handle_git_branch_diff(args, fs) ==
  LET branch1 == GetDefault(args, "branch1", "HEAD")
  IN  Run(log_cmd(branch1), None, <<>>)

\* After log1_result: the second listing command is awaited.
_handle_git_branch_diff_second(args, log1_result) ==
  LET branch2 == GetDefault(args, "branch2", "origin/main")
  IN  Run(log_cmd(branch2), None, <<>>)

_handle_git_branch_diff_result(args, log1_result, log2_result) ==
  LET branch1 == GetDefault(args, "branch1", "HEAD")
      branch2 == GetDefault(args, "branch2", "origin/main")
  IN  IF log1_result.returncode = 0 /\ log2_result.returncode = 0
        THEN LET d1 == Decode(log1_result.stdout)
                 d2 == Decode(log2_result.stdout)
             IN  IF ~d1.ok \/ ~d2.ok THEN _handle_git_branch_diff_except(UnicodeDecodeError)
                 ELSE Return(Ok(Lit("[chart] Branch comparison (") \o Format(branch1)
                                  \o Lit(" vs ") \o Format(branch2) \o Lit("):\n\n")
                                  \o Lit("=== ") \o Format(branch1) \o Lit(" commits ===\n")
                                  \o d1.text \o Lit("\n")
                                  \o Lit("=== ") \o Format(branch2) \o Lit(" commits ===\n")
                                  \o d2.text \o Lit("\n")
                                  \o Lit("[tip] Tip: Use 'git log --oneline --graph ")
                                  \o Format(branch1) \o Lit(" ") \o Format(branch2)
                                  \o Lit("' for visual graph")), <<>>)
        ELSE LET e1 == Decode(log1_result.stderr)
                 e2 == Decode(log2_result.stderr)
             IN  IF ~e1.ok THEN _handle_git_branch_diff_except(UnicodeDecodeError)
                 ELSE IF e1.text # <<>>
                   THEN Return(Err(Lit("[x] Git branch diff failed:\n") \o e1.text), <<>>)
                 ELSE IF ~e2.ok THEN _handle_git_branch_diff_except(UnicodeDecodeError)
                 ELSE Return(Err(Lit("[x] Git branch diff failed:\n") \o e2.text), <<>>)

RECURSIVE Split(_, _)
\* str.split(sep) for a one-character separator: the fields, at least one.
Split(text, sep) ==
  IF \A i \in 1..Len(text) : text[i] # sep THEN <<text>>
  ELSE LET i == CHOOSE j \in 1..Len(text) : text[j] = sep /\ \A h \in 1..(j - 1) : text[h] # sep
       IN  <<SubSeq(text, 1, i - 1)>> \o Split(SubSeq(text, i + 1, Len(text)), sep)

_handle_git_extract_conflict_files(args, fs) ==
  LET file == Get(args, "file")
      sp == _get_script_path("git-diff-123", fs)
  IN  IF ~Truthy(file)
        THEN Return(Err(Lit("[x] Error: file parameter is required")), <<>>)
      ELSE IF ~sp.ok THEN Raise(sp.exc, sp.lookup)
      ELSE Run(<<Str(sp.path), Str("--extract"), file>>, None, sp.lookup)

_handle_git_extract_conflict_files_result(args, result) ==
  IF result.returncode = 0
    THEN LET d == Decode(result.stdout)
             output == Strip(d.text)
             parts == Split(output, Cp(58))
         IN  IF ~d.ok THEN Raise(UnicodeDecodeError, <<>>)
             ELSE IF Len(parts) >= 4
               THEN Return(Ok(Lit("[sync] Conflict files extracted successfully:\n\n")
                                \o Lit("[dir] Temp directory: ") \o parts[1] \o Lit("\n")
                                \o Lit("[file] Ours file: ") \o parts[2] \o Lit("\n")
                                \o Lit("[file] Base file: ") \o parts[3] \o Lit("\n")
                                \o Lit("[file] Theirs file: ") \o parts[4] \o Lit("\n\n")
                                \o Lit("[tip] Edit the 'ours' and/or 'theirs' files as needed, then use git_remerge_from_files to apply changes.")),
                           <<>>)
             ELSE Return(Err(Lit("[x] Unexpected output format:\n") \o output), <<>>)
    ELSE LET d == Decode(result.stderr)
         IN  IF d.ok
               THEN Return(Err(Lit("[x] Git extract conflict files failed:\n") \o d.text), <<>>)
               ELSE Raise(UnicodeDecodeError, <<>>)

_handle_git_remerge_from_files(args, fs) ==
  LET file == Get(args, "file")
      ours_path == Get(args, "ours_path")
      base_path == Get(args, "base_path")
      theirs_path == Get(args, "theirs_path")
      sp == _get_script_path("git-diff-123", fs)
  IN  IF ~(Truthy(file) /\ Truthy(ours_path) /\ Truthy(base_path) /\ Truthy(theirs_path))
        THEN Return(Err(Lit("[x] Error: file, ours_path, base_path, and theirs_path are all required")),
                    <<>>)
      ELSE IF ~sp.ok THEN Raise(sp.exc, sp.lookup)
      ELSE Run(<<Str(sp.path), Str("--remerge"), file, ours_path, base_path, theirs_path>>,
               None, sp.lookup)

_handle_git_remerge_from_files_result(args, result) ==
  Classify("[fix] Re-merge completed successfully:\n\n",
           "[x] Git remerge from files failed:\n", result)

(***************************************************************************)
(* The dispatch table, the process runner and the dispatcher.              *)
(***************************************************************************)
\* handler(arguments), up to the handler's first await.
HandlerBegin(name, args, fs) ==
  CASE name = "git_undo" -> _handle_git_undo(args, fs)
    [] name = "git_redo" -> _handle_git_redo(args, fs)
    [] name = "git_recommit" -> _handle_git_recommit(args, fs)
    [] name = "git_check_dup" -> _handle_git_check_dup(args, fs)
    [] name = "git_remove_redundant_commits" -> _handle_git_remove_redundant_commits(args, fs)
    [] name = "git_branch_diff" -> _handle_git_branch_diff(args, fs)
    [] name = "git_find_file" -> _handle_git_find_file(args, fs)
    [] name = "git_diff_patch" -> _handle_git_diff_patch(args, fs)
    [] name = "git_extract_conflict_files" -> _handle_git_extract_conflict_files(args, fs)
    [] OTHER -> _handle_git_remerge_from_files(args, fs)

\* The handler's code after an await of _run_command has returned; rs holds
\* the CompletedProcess values the handler has received so far.
HandlerResume(name, args, rs) ==
  CASE name = "git_undo" -> _handle_git_undo_result(args, rs[1])
    [] name = "git_redo" -> _handle_git_redo_result(args, rs[1])
    [] name = "git_recommit" -> _handle_git_recommit_result(args, rs[1])
    [] name = "git_check_dup" -> _handle_git_check_dup_result(args, rs[1])
    [] name = "git_remove_redundant_commits" ->
         _handle_git_remove_redundant_commits_result(args, rs[1])
    [] name = "git_branch_diff" ->
         IF Len(rs) = 1 THEN _handle_git_branch_diff_second(args, rs[1])
         ELSE _handle_git_branch_diff_result(args, rs[1], rs[2])
    [] name = "git_find_file" -> _handle_git_find_file_result(args, rs[1])
    [] name = "git_diff_patch" -> _handle_git_diff_patch_result(args, rs[1])
    [] name = "git_extract_conflict_files" ->
         _handle_git_extract_conflict_files_result(args, rs[1])
    [] OTHER -> _handle_git_remerge_from_files_result(args, rs[1])

\* An exception raised by an awaited _run_command inside the handler: only
\* _handle_git_branch_diff has a try block of its own.
HandlerExcept(name, exc) ==
  IF name = "git_branch_diff" THEN _handle_git_branch_diff_except(exc) ELSE Raise(exc, <<>>)

\* What create_subprocess_exec can do with a well-typed argv: start the
\* child, or fail with str(e) one of these texts (the empty text is an
\* exception without a message, such as NotImplementedError()).
SpawnErrors == {"[Errno 13] Permission denied", ""}
SpawnChoices == {"ok"} \cup SpawnErrors

RECURSIVE ReprCmd(_)
\* The list of tokens as str(CalledProcessError) shows it.
ReprCmd(cmd) ==
  IF cmd = <<>> THEN <<>>
  ELSE IF Len(cmd) = 1 THEN Format(Head(cmd))
  ELSE Format(Head(cmd)) \o Lit(", ") \o ReprCmd(Tail(cmd))

\* subprocess.CalledProcessError(1, cmd, output, stderr).
CalledProcessError(cmd, stderr) ==
  Exc("CalledProcessError",
      Lit("Command '[") \o ReprCmd(cmd) \o Lit("]' returned non-zero exit status 1."), stderr)

NoChild == [cmd |-> <<>>, stdin |-> "NONE", input |-> <<>>]

\* _run_command up to `await process.communicate(...)`: the child is started
\* with stdin a pipe when input_text is truthy and stdin=None (inherited from
\* the bridge) otherwise; any exception becomes CalledProcessError.
_run_command(cmd, input_text, sp) ==
  LET e == IF \E i \in 1..Len(cmd) : cmd[i].t # "str"
             THEN Lit("expected str, bytes or os.PathLike object, not int")
             ELSE Lit(sp)
  IN  IF (\A i \in 1..Len(cmd) : cmd[i].t = "str") /\ sp = "ok"
        THEN [ok |-> TRUE, exc |-> NoExc, error |-> <<>>,
              child |-> [cmd |-> cmd,
                         stdin |-> IF Truthy(input_text) THEN "PIPE" ELSE "INHERIT",
                         input |-> IF Truthy(input_text) THEN Encode(Lit(input_text.s)) ELSE <<>>]]
        ELSE [ok |-> FALSE, exc |-> CalledProcessError(cmd, Encode(e)), error |-> e,
              child |-> NoChild]

\* A dispatcher without the `except Exception` clause.
call_tool_except_narrow(exc) ==
  IF exc.type = "CalledProcessError"
    THEN [escaped |-> FALSE, env |-> Err(Lit("Git script failed: ") \o Decode(exc.stderr).text)]
    ELSE [escaped |-> TRUE, env |-> NoEnv]

\* A dispatcher without the `except subprocess.CalledProcessError` clause.
call_tool_except_generic(exc) ==
  [escaped |-> FALSE, env |-> Err(Lit("Tool execution failed: ") \o exc.msg)]

\* The except clauses of call_tool.  An exception raised while one of them
\* runs (e.stderr.decode() failing) leaves call_tool: escaped.
call_tool_except(exc) ==
  IF exc.type = "CalledProcessError"
    THEN IF exc.stderr # <<>>
           THEN LET d == Decode(exc.stderr)
                IN  IF d.ok THEN [escaped |-> FALSE, env |-> Err(Lit("Git script failed: ") \o d.text)]
                    ELSE [escaped |-> TRUE, env |-> NoEnv]
           ELSE [escaped |-> FALSE, env |-> Err(Lit("Git script failed: ") \o exc.msg)]
    ELSE [escaped |-> FALSE, env |-> Err(Lit("Tool execution failed: ") \o exc.msg)]

\* One stretch of a call from a handler step r to the next suspension: the
\* call ends with an envelope ("done"), leaves call_tool by an exception
\* ("crashed"), or waits for the child it has started ("wait").
Stretch(pc, env, child, caught, attempts) ==
  [pc |-> pc, env |-> env, child |-> child, caught |-> caught, attempts |-> attempts]

Finish(r, attempts) ==
  IF r.kind = "return" THEN Stretch("done", r.env, NoChild, NoExc, attempts)
  ELSE LET c == call_tool_except(r.exc)
       IN  Stretch(IF c.escaped THEN "crashed" ELSE "done", c.env, NoChild, r.exc, attempts)

Advance(name, r, sp) ==
  IF r.kind # "run" THEN Finish(r, <<>>)
  ELSE LET p == _run_command(r.cmd, r.input, sp)
           a == <<[cmd |-> r.cmd, input |-> r.input, started |-> p.ok, error |-> p.error]>>
       IN  IF p.ok THEN Stretch("wait", NoEnv, p.child, NoExc, a)
           ELSE Finish(HandlerExcept(name, p.exc), a)

\* A dispatcher that falls through to the last handler for an unknown name.
call_tool_fallthrough(name, args, fs, sp) ==
  LET r == HandlerBegin(name, args, fs)
  IN  [lookups |-> r.lookups, st |-> Advance(name, r, sp)]

\* call_tool(name, arguments) up to its first suspension.
call_tool(name, args, fs, sp) ==
  IF name \notin Handlers
    THEN [lookups |-> <<>>,
          st |-> Stretch("done", Err(Lit("Unknown tool: ") \o Lit(name)), NoChild, NoExc, <<>>)]
    ELSE LET r == HandlerBegin(name, args, fs)
         IN  [lookups |-> r.lookups, st |-> Advance(name, r, sp)]

(***************************************************************************)
(* The inputs the model draws from.                                        *)
(***************************************************************************)
\* The one call slot of the sequential client, and all slots.
Tasks == {1}

NoArgs == [p \in Params |-> Absent]
Request(name, args) == [name |-> name, args |-> args]
NoRequest == Request("", NoArgs)

\* Values a boolean, a branch and a required string parameter are given.
Flags == {Absent, Bool(TRUE), Bool(FALSE)}
Branches == {Absent, Str("origin/main"), Str("dev"), Str("")}
Refs == {Absent, Str("dev")}
Strings == {Absent, Str(""), Str("x")}
Paths == {Absent, Str("p")}

Requests ==
  {Request(n, NoArgs) : n \in {"git_status", ""}}
  \cup {Request(n, [NoArgs EXCEPT !["confirm"] = c]) :
          n \in {"git_undo", "git_recommit"}, c \in Flags}
  \cup {Request("git_redo", [NoArgs EXCEPT !["confirm"] = c, !["message_only"] = m]) :
          c \in Flags, m \in Flags}
  \cup {Request("git_check_dup", [NoArgs EXCEPT !["remote_branch"] = b, !["quiet"] = q]) :
          b \in Branches, q \in Flags}
  \cup {Request("git_remove_redundant_commits",
                [NoArgs EXCEPT !["onto_branch"] = b, !["apply"] = a]) :
          b \in Branches, a \in Flags}
  \cup {Request("git_branch_diff", [NoArgs EXCEPT !["branch1"] = b1, !["branch2"] = b2]) :
          b1 \in Refs \cup {IntV(7)}, b2 \in Refs}
  \cup {Request("git_find_file", [NoArgs EXCEPT !["pattern"] = p, !["local"] = l]) :
          p \in Strings \cup {IntV(7)}, l \in Flags}
  \cup {Request("git_diff_patch", [NoArgs EXCEPT !["commit1"] = c1, !["commit2"] = c2]) :
          c1 \in Strings, c2 \in Strings}
  \cup {Request("git_extract_conflict_files", [NoArgs EXCEPT !["file"] = f]) : f \in Strings}
  \cup {Request("git_remerge_from_files",
                [NoArgs EXCEPT !["file"] = f, !["ours_path"] = o, !["base_path"] = b,
                               !["theirs_path"] = t]) :
          f \in Strings, o \in Strings, b \in Paths, t \in Paths}

\* The bytes a child writes: "a", a newline, and 0xFF, which no UTF-8 text holds.
Alphabet == {97, 10, 255}
\* Exit statuses: success and failure.
ExitCodes == {0, 1}
ByteSeqs(n) == UNION {[1..k -> {Byte(b) : b \in Alphabet}] : k \in 0..n}

\* The outcomes of a child that writes at most n bytes in all.
Outcomes(n) ==
  {CompletedProcess(rc, w[1], w[2]) :
     rc \in ExitCodes,
     w \in {v \in ByteSeqs(n) \X ByteSeqs(n) : Len(v[1]) + Len(v[2]) <= n}}

(***************************************************************************)
(* The state.                                                              *)
(***************************************************************************)
VARIABLES
  server,    \* main(): "starting", "serving" (transport open), "exited" (sys.exit(1))
  scripts,   \* the script files present under SCRIPT_DIR
  pc,        \* per call slot: "idle", "wait" (child running), "done", "crashed"
  req,       \* the name and arguments of the call in the slot
  lookups,   \* the _get_script_path checks the call has made
  attempts,  \* the create_subprocess_exec calls the call has made
  child,     \* the child process the call waits for
  results,   \* the CompletedProcess values the call has received
  caught,    \* the exception that reached an except clause of call_tool
  envelope,  \* the CallToolResult the call returns
  exit_status,  \* the status main() has exited with: <<>> while it runs
  listed,    \* list_tools has answered a request
  consumed   \* per call slot: its child has read from the bridge's own stdin

vars ==
  <<server, scripts, pc, req, lookups, attempts, child, results, caught, envelope,
    exit_status, listed, consumed>>

\* Bytes the children of the call in slot t have written so far.
Written(t) ==
  LET n(i) == Len(results[t][i].stdout) + Len(results[t][i].stderr)
  IN  IF Len(results[t]) = 0 THEN 0
      ELSE IF Len(results[t]) = 1 THEN n(1)
      ELSE n(1) + n(2)

Init ==
  /\ server = "starting"
  /\ scripts \in {fs \in SUBSET ScriptNames : Cardinality(ScriptNames \ fs) <= MaxMissing}
  /\ pc = [t \in Tasks |-> "idle"]
  /\ req = [t \in Tasks |-> NoRequest]
  /\ lookups = [t \in Tasks |-> <<>>]
  /\ attempts = [t \in Tasks |-> <<>>]
  /\ child = [t \in Tasks |-> NoChild]
  /\ results = [t \in Tasks |-> <<>>]
  /\ caught = [t \in Tasks |-> NoExc]
  /\ envelope = [t \in Tasks |-> NoEnv]
  /\ exit_status = <<>>
  /\ listed = FALSE
  /\ consumed = [t \in Tasks |-> FALSE]

\* A main() that opens the transport without the sentinel check.
Main_unchecked ==
  /\ server = "starting"
  /\ server' = "serving"
  /\ UNCHANGED <<scripts, pc, req, lookups, attempts, child, results, caught, envelope,
                 exit_status, listed, consumed>>

\* main(): the sentinel check, then the transport is opened or the process exits.
Main ==
  /\ server = "starting"
  /\ server' = IF _get_script_path("git-undo", scripts).ok THEN "serving" ELSE "exited"
  /\ exit_status' = IF _get_script_path("git-undo", scripts).ok THEN <<>> ELSE <<1>>
  /\ UNCHANGED <<scripts, pc, req, lookups, attempts, child, results, caught, envelope, listed, consumed>>

\* Another process removes a script file from the install root.
RemoveScript(s) ==
  /\ s \in scripts
  /\ Cardinality(ScriptNames \ scripts) < MaxMissing
  /\ scripts' = scripts \ {s}
  /\ UNCHANGED <<server, pc, req, lookups, attempts, child, results, caught, envelope,
                 exit_status, listed, consumed>>

\* Another process puts a script file back.
RestoreScript(s) ==
  /\ s \notin scripts
  /\ scripts' = scripts \cup {s}
  /\ UNCHANGED <<server, pc, req, lookups, attempts, child, results, caught, envelope,
                 exit_status, listed, consumed>>

\* The transport hands a call to call_tool, which runs to its first suspension.
CallTool(t, r, sp) ==
  /\ server = "serving"
  /\ pc[t] = "idle"
  /\ LET c == call_tool(r.name, r.args, scripts, sp)
     IN  /\ pc' = [pc EXCEPT ![t] = c.st.pc]
         /\ req' = [req EXCEPT ![t] = r]
         /\ lookups' = [lookups EXCEPT ![t] = c.lookups]
         /\ attempts' = [attempts EXCEPT ![t] = c.st.attempts]
         /\ child' = [child EXCEPT ![t] = c.st.child]
         /\ results' = [results EXCEPT ![t] = <<>>]
         /\ caught' = [caught EXCEPT ![t] = c.st.caught]
         /\ envelope' = [envelope EXCEPT ![t] = c.st.env]
  /\ UNCHANGED <<server, scripts, exit_status, listed, consumed>>

\* A bridge that keeps the name and arguments of the call being served in one
\* field of the object: the handler resumes with those of the last slot waiting.
ChildReturns_shared(t, o, sp) ==
  /\ pc[t] = "wait"
  /\ sp # "ok" => HandlerResume(req[t].name, req[t].args, Append(results[t], o)).kind = "run"
  /\ LET rs == Append(results[t], o)
         u == CHOOSE w \in DOMAIN pc : pc[w] = "wait" /\ \A v \in DOMAIN pc : pc[v] = "wait" => v <= w
         st == Advance(req[u].name, HandlerResume(req[u].name, req[u].args, rs), sp)
     IN  /\ pc' = [pc EXCEPT ![t] = st.pc]
         /\ attempts' = [attempts EXCEPT ![t] = attempts[t] \o st.attempts]
         /\ child' = [child EXCEPT ![t] = st.child]
         /\ results' = [results EXCEPT ![t] = rs]
         /\ caught' = [caught EXCEPT ![t] = st.caught]
         /\ envelope' = [envelope EXCEPT ![t] = st.env]
  /\ UNCHANGED <<server, scripts, req, lookups, exit_status, listed, consumed>>

\* communicate() returns the outcome o of the child of the call in slot t,
\* and the handler runs on to its next suspension or to its end.
ChildReturns(t, o, sp) ==
  /\ pc[t] = "wait"
  /\ sp # "ok" => HandlerResume(req[t].name, req[t].args, Append(results[t], o)).kind = "run"
  /\ LET rs == Append(results[t], o)
         st == Advance(req[t].name, HandlerResume(req[t].name, req[t].args, rs), sp)
     IN  /\ pc' = [pc EXCEPT ![t] = st.pc]
         /\ attempts' = [attempts EXCEPT ![t] = attempts[t] \o st.attempts]
         /\ child' = [child EXCEPT ![t] = st.child]
         /\ results' = [results EXCEPT ![t] = rs]
         /\ caught' = [caught EXCEPT ![t] = st.caught]
         /\ envelope' = [envelope EXCEPT ![t] = st.env]
  /\ UNCHANGED <<server, scripts, req, lookups, exit_status, listed, consumed>>

\* list_tools answers a request with the catalog.
ListTools ==
  /\ server = "serving"
  /\ listed' = TRUE
  /\ UNCHANGED <<server, scripts, pc, req, lookups, attempts, child, results, caught, envelope,
                 exit_status, consumed>>

\* The child of the call in slot t terminates, within the bound on its output.
ChildExit(t, o, sp) ==
  /\ pc[t] = "wait"
  /\ Written(t) + Len(o.stdout) + Len(o.stderr) <= MaxBytes
  /\ ChildReturns(t, o, sp)

\* The transport sends the envelope; the slot is free for the next call.
SendResult(t) ==
  /\ pc[t] = "done"
  /\ pc' = [pc EXCEPT ![t] = "idle"]
  /\ req' = [req EXCEPT ![t] = NoRequest]
  /\ lookups' = [lookups EXCEPT ![t] = <<>>]
  /\ attempts' = [attempts EXCEPT ![t] = <<>>]
  /\ child' = [child EXCEPT ![t] = NoChild]
  /\ results' = [results EXCEPT ![t] = <<>>]
  /\ caught' = [caught EXCEPT ![t] = NoExc]
  /\ envelope' = [envelope EXCEPT ![t] = NoEnv]
  /\ consumed' = [consumed EXCEPT ![t] = FALSE]
  /\ UNCHANGED <<server, scripts, exit_status, listed>>

Next ==
  \/ Main
  \/ \E s \in ScriptNames : RemoveScript(s)
  \/ \E s \in ScriptNames : RestoreScript(s)
  \/ \E t \in Tasks, r \in Requests, sp \in SpawnChoices : CallTool(t, r, sp)
  \/ \E t \in Tasks, o \in Outcomes(MaxBytes), sp \in SpawnChoices : ChildExit(t, o, sp)
  \/ \E t \in Tasks : SendResult(t)

Spec == Init /\ [][Next]_vars

TypeOK ==
  /\ server \in {"starting", "serving", "exited"}
  /\ scripts \subseteq ScriptNames
  /\ \A t \in DOMAIN pc : pc[t] \in {"idle", "wait", "done", "crashed"}
  /\ exit_status \in {<<>>, <<1>>}
  /\ listed \in BOOLEAN
  /\ consumed \in [DOMAIN pc -> BOOLEAN]

(***************************************************************************)
(* The claims.                                                             *)
(***************************************************************************)
\* The tools that run a script of the install root, and the script each runs.
ScriptBacked == Handlers \ {"git_branch_diff"}
ScriptOf(name) ==
  CASE name = "git_undo" -> "git-undo"
    [] name = "git_redo" -> "git-redo"
    [] name = "git_recommit" -> "git-recommit"
    [] name = "git_check_dup" -> "git-check-dup"
    [] name = "git_remove_redundant_commits" -> "git-remove-redundant-commits"
    [] name = "git_find_file" -> "git-find_file"
    [] name = "git_diff_patch" -> "git-diff-patch"
    [] OTHER -> "git-diff-123"

\* The required string parameters of each tool, and the tool's '... required' text.
Required(name) ==
  CASE name = "git_find_file" -> {"pattern"}
    [] name = "git_diff_patch" -> {"commit1", "commit2"}
    [] name = "git_extract_conflict_files" -> {"file"}
    [] name = "git_remerge_from_files" -> {"file", "ours_path", "base_path", "theirs_path"}
    [] OTHER -> {}
RequiredMessage(name) ==
  CASE name = "git_find_file" -> "[x] Error: pattern parameter is required"
    [] name = "git_diff_patch" -> "[x] Error: commit1 and commit2 are required."
    [] name = "git_extract_conflict_files" -> "[x] Error: file parameter is required"
    [] OTHER -> "[x] Error: file, ours_path, base_path, and theirs_path are all required"

\* A required parameter of the request is missing or is the empty string.
LacksRequired(r) == \E k \in Required(r.name) : r.args[k] \in {Absent, Str("")}

\* The slot holds a call that call_tool has taken.
Taken(t) == pc[t] # "idle"

\* C1: a call whose name is not in the handler catalog ends at once with the
\* error envelope "Unknown tool: {name}"; it makes no script lookup and
\* starts no child process.
C1_UnknownTool ==
  \A t \in Tasks :
    (Taken(t) /\ req[t].name \notin Handlers) =>
      /\ pc[t] = "done"
      /\ envelope[t] = Err(Lit("Unknown tool: ") \o Lit(req[t].name))
      /\ lookups[t] = <<>>
      /\ attempts[t] = <<>>
      /\ child[t] = NoChild

C1_Witness == \E t \in Tasks : pc[t] = "done" /\ req[t].name = "git_status"

\* C2: a call that lacks a required string parameter (missing or empty) ends
\* with the tool's '... required' error envelope and starts no child process,
\* whatever scripts are present; the envelope depends on the request alone.
C2_RequiredShortCircuits ==
  \A t \in Tasks :
    (Taken(t) /\ req[t].name \in Handlers /\ LacksRequired(req[t])) =>
      /\ pc[t] = "done"
      /\ envelope[t] = Err(Lit(RequiredMessage(req[t].name)))
      /\ attempts[t] = <<>>

\* C3: no exception leaves call_tool, a finished call holds exactly one
\* envelope and an unfinished one none, an exception caught by call_tool ends
\* the call with an error envelope, and the bridge keeps serving.
C3_OneEnvelopeNoEscape ==
  \A t \in Tasks :
    /\ pc[t] # "crashed"
    /\ pc[t] = "done" <=> envelope[t] # NoEnv
    /\ caught[t] # NoExc => (pc[t] = "done" /\ envelope[t].isError /\ server = "serving")

C3_Witness ==
  \E t \in Tasks :
    /\ pc[t] = "done"
    /\ caught[t].type = "UnicodeDecodeError"
    /\ envelope[t].isError

\* The tools whose handler returns the script's text without parsing it.
Plain == ScriptBacked \ {"git_extract_conflict_files"}

\* C4: for a plain script-backed tool and every captured outcome, exit code 0
\* gives a success envelope whose text contains the decoded stdout, and a
\* non-zero exit code gives an error envelope whose text contains the decoded
\* stderr; is_error holds exactly when the exit code is non-zero.
C4_ClassifiedByExitCode ==
  \A t \in Tasks :
    (pc[t] = "done" /\ req[t].name \in Plain /\ Len(results[t]) = 1) =>
      LET o == results[t][1]
      IN  /\ envelope[t].isError <=> o.returncode # 0
          /\ o.returncode = 0 =>
               (Decode(o.stdout).ok /\ Contains(envelope[t].text, Decode(o.stdout).text))
          /\ o.returncode # 0 =>
               (Decode(o.stderr).ok /\ Contains(envelope[t].text, Decode(o.stderr).text))

\* C5: decoding the captured output never fails: no UnicodeDecodeError reaches
\* the dispatcher, and an outcome with exit code 0 yields a success envelope
\* even when its stdout is not valid UTF-8.
C5_DecodingNeverFails ==
  \A t \in Tasks :
    /\ caught[t].type # "UnicodeDecodeError"
    /\ (pc[t] = "done" /\ req[t].name \in ScriptBacked /\ Len(results[t]) = 1) =>
         (envelope[t].isError <=> results[t][1].returncode # 0)

\* The call in slot t ended because starting a child process failed.
SpawnFailed(t) ==
  /\ pc[t] = "done"
  /\ attempts[t] # <<>>
  /\ ~attempts[t][Len(attempts[t])].started

\* The envelope the tool returns for a script that exits 1 with stderr the
\* encoding of the text e.
ScriptFailureEnvelope(r, e) ==
  IF r.name = "git_branch_diff"
    THEN _handle_git_branch_diff_result(r.args, CompletedProcess(1, <<>>, Encode(e)),
                                        CompletedProcess(1, <<>>, <<>>)).env
    ELSE HandlerResume(r.name, r.args, <<CompletedProcess(1, <<>>, Encode(e))>>).env

\* C6 as stated: a failed spawn reaches the handler as a failure outcome, so
\* the call's envelope is the one the tool returns for a script that exited
\* non-zero with the error text as stderr.
C6_SpawnFailureLooksLikeScriptFailure ==
  \A t \in Tasks :
    SpawnFailed(t) =>
      /\ caught[t] = NoExc
      /\ envelope[t] = ScriptFailureEnvelope(req[t], attempts[t][Len(attempts[t])].error)

\* C6 as amended: a failed spawn is raised as CalledProcessError; the call
\* still ends with an error envelope, whose text is "Git script failed: "
\* and the error text from the dispatcher (or, for git_branch_diff, the
\* handler's "Git branch diff failed: " and the CalledProcessError message),
\* never the envelope the tool returns for a script that failed.
C6_SpawnFailureIsRaised ==
  \A t \in Tasks :
    SpawnFailed(t) =>
      LET a == attempts[t][Len(attempts[t])]
          e == CalledProcessError(a.cmd, Encode(a.error))
      IN  /\ envelope[t].isError
          /\ envelope[t] # ScriptFailureEnvelope(req[t], a.error)
          /\ IF req[t].name = "git_branch_diff"
               THEN /\ caught[t] = NoExc
                    /\ envelope[t].text = Lit("[x] Git branch diff failed: ") \o e.msg
               ELSE /\ caught[t] = e
                    /\ envelope[t].text =
                         Lit("Git script failed: ") \o (IF a.error # <<>> THEN a.error ELSE e.msg)

C6_Witness ==
  \E t \in Tasks :
    /\ SpawnFailed(t)
    /\ req[t].name = "git_undo"
    /\ attempts[t][1].error = Lit("[Errno 13] Permission denied")

\* The call in slot t was valid for a script-backed tool: every required
\* parameter was given a non-empty value.
ValidScriptCall(r) == r.name \in ScriptBacked /\ ~LacksRequired(r)

\* C7: every script-backed call with valid arguments checks the script file
\* at the time of the call: with the file absent the call ends with an error
\* envelope that names the missing path and starts no process; with the file
\* present it goes on to start the script; whatever happened before.
C7_LocatedOnEveryCall ==
  [][\A t \in Tasks :
       (pc[t] = "idle" /\ pc'[t] # "idle" /\ ValidScriptCall(req'[t])) =>
         LET script == ScriptOf(req'[t].name)
         IN  /\ lookups'[t] = <<[name |-> script, found |-> script \in scripts]>>
             /\ IF script \in scripts
                  THEN /\ attempts'[t] # <<>>
                       /\ attempts'[t][1].cmd[1] = Str(ScriptPath(script))
                  ELSE /\ pc'[t] = "done"
                       /\ envelope'[t].isError
                       /\ Contains(envelope'[t].text, Lit(ScriptPath(script)))
                       /\ attempts'[t] = <<>>
                       /\ child'[t] = NoChild]_vars

C7_Witness ==
  \E t \in Tasks :
    /\ pc[t] = "done"
    /\ req[t].name = "git_redo"
    /\ lookups[t] = <<[name |-> "git-redo", found |-> FALSE]>>
    /\ "git-redo" \in scripts

\* The argv of attempt a starts with the path of a script that the call in
\* slot t has found with _get_script_path.
StartsWithVerifiedScript(t, a) ==
  /\ Len(a.cmd) >= 1
  /\ \E j \in 1..Len(lookups[t]) :
       lookups[t][j].found /\ a.cmd[1] = Str(ScriptPath(lookups[t][j].name))

C9_ConfirmIsStdin ==
  \A t \in Tasks :
    (req[t].name \in {"git_undo", "git_redo", "git_recommit"} /\ attempts[t] # <<>>) =>
      LET a == attempts[t][1]
          confirm == req[t].args["confirm"]
      IN  /\ confirm = Bool(TRUE) =>
               /\ a.input = Str("y\n")
               /\ pc[t] = "wait" =>
                    (child[t].stdin = "PIPE" /\ child[t].input = Encode(Lit("y\n")))
          /\ confirm \in {Absent, Bool(FALSE)} =>
               /\ a.input = None
               /\ pc[t] = "wait" => (child[t].stdin # "PIPE" /\ child[t].input = <<>>)
          /\ a.cmd \in {<<Str(ScriptPath(ScriptOf(req[t].name)))>>,
                        <<Str(ScriptPath(ScriptOf(req[t].name))), Str("--message-only")>>}

C9_Witness ==
  \E t \in Tasks :
    /\ pc[t] = "wait"
    /\ req[t].name = "git_undo"
    /\ req[t].args["confirm"] = Bool(TRUE)
    /\ child[t].input = Encode(Lit("y\n"))

\* C10: git_check_dup appends no branch token when remote_branch is absent
\* or "origin/main" and otherwise exactly one token, the value, last (after
\* --quiet if present); git_remove_redundant_commits appends nothing when
\* onto_branch is absent or "origin/main" and otherwise exactly "--onto", value.
C10_DefaultsOmitted ==
  \A t \in Tasks :
    attempts[t] # <<>> =>
      LET cmd == attempts[t][1].cmd
          n == Len(cmd)
          quiet == IF n >= 2 /\ cmd[2] = Str("--quiet") THEN 1 ELSE 0
          apply == IF cmd[n] = Str("--apply") THEN 1 ELSE 0
          remote_branch == req[t].args["remote_branch"]
          onto_branch == req[t].args["onto_branch"]
      IN  /\ req[t].name = "git_check_dup" =>
               IF remote_branch \in {Absent, Str("origin/main")}
                 THEN n = 1 + quiet
                 ELSE n = 2 + quiet /\ cmd[n] = remote_branch
          /\ req[t].name = "git_remove_redundant_commits" =>
               IF onto_branch \in {Absent, Str("origin/main")}
                 THEN n = 1 + apply /\ \A i \in 1..n : cmd[i] # Str("--onto")
                 ELSE n = 3 + apply /\ cmd[2] = Str("--onto") /\ cmd[3] = onto_branch

C10_Witness ==
  \E t \in Tasks :
    /\ req[t].name = "git_check_dup"
    /\ req[t].args["remote_branch"] = Str("dev")
    /\ req[t].args["quiet"] = Bool(TRUE)
    /\ attempts[t] # <<>>
    /\ attempts[t][1].cmd[3] = Str("dev")

\* The boolean flag of each tool that has one, and the token it stands for.
Flagged == {"git_redo", "git_check_dup", "git_remove_redundant_commits", "git_find_file"}
FlagOf(name) ==
  CASE name = "git_redo" -> "message_only"
    [] name = "git_check_dup" -> "quiet"
    [] name = "git_remove_redundant_commits" -> "apply"
    [] name = "git_find_file" -> "local"
FlagToken(name) ==
  CASE name = "git_redo" -> Str("--message-only")
    [] name = "git_check_dup" -> Str("--quiet")
    [] name = "git_remove_redundant_commits" -> Str("--apply")
    [] name = "git_find_file" -> Str("--local")
Occurrences(cmd, token) == Cardinality({i \in 1..Len(cmd) : cmd[i] = token})

\* C11: for message_only, quiet, apply and local, with any setting of the
\* other arguments, the argv built with the flag false is the argv built with
\* the flag omitted and holds no flag token; the flag token occurs in the argv
\* exactly once when the flag is true and not at all otherwise.
C11_FlagTokenIffTrue ==
  \A t \in Tasks :
    (attempts[t] # <<>> /\ req[t].name \in Flagged) =>
      LET name == req[t].name
          cmd == attempts[t][1].cmd
          flag == req[t].args[FlagOf(name)]
          omitted == HandlerBegin(name, [req[t].args EXCEPT ![FlagOf(name)] = Absent], ScriptNames)
      IN  /\ Occurrences(cmd, FlagToken(name)) = IF flag = Bool(TRUE) THEN 1 ELSE 0
          /\ flag = Bool(FALSE) => omitted.kind = "run" /\ cmd = omitted.cmd

C11_Witness ==
  \E t \in Tasks :
    /\ req[t].name = "git_find_file"
    /\ req[t].args["local"] = Bool(FALSE)
    /\ attempts[t] # <<>>
    /\ Len(attempts[t][1].cmd) = 2

(***************************************************************************)
(* The tools that read their children's output closely: one call slot, all *)
(* scripts present, and children that write enough for four fields.        *)
(***************************************************************************)
\* The longest stdout of the extract script, and of one git log command's stream.
MaxStdout == 4
MaxLogBytes == 1
\* The bytes the extract script writes: ":", "a", a newline and 0xFF.
FieldAlphabet == {58, 97, 10, 255}
FieldSeqs(n) == UNION {[1..k -> {Byte(b) : b \in FieldAlphabet}] : k \in 0..n}
ExtractOutcomes ==
  {CompletedProcess(rc, out, err) :
     rc \in ExitCodes, out \in FieldSeqs(MaxStdout), err \in ByteSeqs(MaxLogBytes)}
LogOutcomes ==
  {CompletedProcess(rc, out, err) :
     rc \in ExitCodes, out \in ByteSeqs(MaxLogBytes), err \in ByteSeqs(MaxLogBytes)}
OutputRequests ==
  {r \in Requests : r.name \in {"git_extract_conflict_files", "git_branch_diff"}}

InitOutput ==
  /\ server = "starting"
  /\ scripts = ScriptNames
  /\ pc = [t \in Tasks |-> "idle"]
  /\ req = [t \in Tasks |-> NoRequest]
  /\ lookups = [t \in Tasks |-> <<>>]
  /\ attempts = [t \in Tasks |-> <<>>]
  /\ child = [t \in Tasks |-> NoChild]
  /\ results = [t \in Tasks |-> <<>>]
  /\ caught = [t \in Tasks |-> NoExc]
  /\ envelope = [t \in Tasks |-> NoEnv]
  /\ exit_status = <<>>
  /\ listed = FALSE
  /\ consumed = [t \in Tasks |-> FALSE]

\* The git-diff-123 --extract child of the call in slot t terminates.
ExtractExit(t, o) ==
  /\ req[t].name = "git_extract_conflict_files"
  /\ ChildReturns(t, o, "ok")

\* A git log child of the git_branch_diff call in slot t terminates.
LogExit(t, o, sp) ==
  /\ req[t].name = "git_branch_diff"
  /\ ChildReturns(t, o, sp)

NextOutput ==
  \/ Main
  \/ \E t \in Tasks, r \in OutputRequests, sp \in SpawnChoices : CallTool(t, r, sp)
  \/ \E t \in Tasks, o \in ExtractOutcomes : ExtractExit(t, o)
  \/ \E t \in Tasks, o \in LogOutcomes, sp \in SpawnChoices : LogExit(t, o, sp)
  \/ \E t \in Tasks : SendResult(t)

SpecOutput == InitOutput /\ [][NextOutput]_vars

\* The positions of ":" in a text, the k-th of them, and the k-th field they delimit.
ColonsAt(out) == {i \in 1..Len(out) : out[i] = Cp(58)}
KthColon(out, k) == CHOOSE i \in ColonsAt(out) : Cardinality({j \in ColonsAt(out) : j < i}) = k - 1
Field(out, k) ==
  SubSeq(out,
         IF k = 1 THEN 1 ELSE KthColon(out, k - 1) + 1,
         IF Cardinality(ColonsAt(out)) >= k THEN KthColon(out, k) - 1 ELSE Len(out))
\* The success envelope of git_extract_conflict_files for the trimmed output out.
ExtractedEnvelope(out) ==
  Ok(Lit("[sync] Conflict files extracted successfully:\n\n")
       \o Lit("[dir] Temp directory: ") \o Field(out, 1) \o Lit("\n")
       \o Lit("[file] Ours file: ") \o Field(out, 2) \o Lit("\n")
       \o Lit("[file] Base file: ") \o Field(out, 3) \o Lit("\n")
       \o Lit("[file] Theirs file: ") \o Field(out, 4) \o Lit("\n\n")
       \o Lit("[tip] Edit the 'ours' and/or 'theirs' files as needed, then use git_remerge_from_files to apply changes."))
\* The git_extract_conflict_files call in slot t has got exit code 0 from its child.
ExtractedWithZero(t) ==
  /\ req[t].name = "git_extract_conflict_files"
  /\ Len(results[t]) = 1
  /\ results[t][1].returncode = 0

\* C12: when the extract script exits 0, its stdout, trimmed, is split on ":";
\* with at least four fields (three or more ":" bytes) the call ends with the
\* success envelope that reports the first four fields as temp dir, ours, base
\* and theirs, and with fewer it ends with the error envelope that begins
\* "Unexpected output format".
C12_ExitZeroParsedByFields ==
  \A t \in Tasks :
    ExtractedWithZero(t) =>
      LET stdout == results[t][1].stdout
          colons == Cardinality({i \in 1..Len(stdout) : stdout[i] = Byte(58)})
          d == Decode(stdout)
      IN  /\ pc[t] = "done"
          /\ IF colons >= 3
               THEN /\ ~envelope[t].isError
                    /\ d.ok => envelope[t] = ExtractedEnvelope(Strip(d.text))
               ELSE /\ envelope[t].isError
                    /\ Head(envelope[t].text) = Lit("[x] Unexpected output format:\n")[1]

\* The parse of C12 is as stated whenever the stdout is valid UTF-8.
ExtractParsedWhenDecodable ==
  \A t \in Tasks :
    (ExtractedWithZero(t) /\ Decode(results[t][1].stdout).ok) =>
      LET out == Strip(Decode(results[t][1].stdout).text)
      IN  /\ pc[t] = "done"
          /\ envelope[t] = IF Cardinality(ColonsAt(out)) >= 3
                             THEN ExtractedEnvelope(out)
                             ELSE Err(Lit("[x] Unexpected output format:\n") \o out)

\* The header git_branch_diff puts over the commits of a branch.
CommitsHeader(branch) == Lit("=== ") \o Format(branch) \o Lit(" commits ===\n")

\* C13: when both git log commands of git_branch_diff exit 0 the call ends
\* with a success envelope that holds each stdout under the header naming its
\* branch (HEAD and origin/main by default); when either exits non-zero it
\* ends with an error envelope whose text contains the stderr of a command
\* that failed, for every combination of exit codes and stderr contents.
C13_BranchDiffEnvelope ==
  \A t \in Tasks :
    (req[t].name = "git_branch_diff" /\ Len(results[t]) = 2) =>
      LET log == results[t]
          branch == <<GetDefault(req[t].args, "branch1", "HEAD"),
                      GetDefault(req[t].args, "branch2", "origin/main")>>
      IN  /\ pc[t] = "done"
          /\ IF log[1].returncode = 0 /\ log[2].returncode = 0
               THEN /\ ~envelope[t].isError
                    /\ \A i \in {1, 2} :
                         /\ Decode(log[i].stdout).ok
                         /\ Contains(envelope[t].text,
                                     CommitsHeader(branch[i]) \o Decode(log[i].stdout).text)
               ELSE /\ envelope[t].isError
                    /\ \E i \in {1, 2} :
                         /\ log[i].returncode # 0
                         /\ Decode(log[i].stderr).ok
                         /\ Contains(envelope[t].text, Decode(log[i].stderr).text)

\* What git_branch_diff answers when every stream involved is valid UTF-8:
\* on failure, the first command's stderr if it is not empty, else the second's.
BranchDiffWhenDecodable ==
  \A t \in Tasks :
    (req[t].name = "git_branch_diff" /\ Len(results[t]) = 2
       /\ \A i \in {1, 2} : Decode(results[t][i].stdout).ok /\ Decode(results[t][i].stderr).ok) =>
      LET log == results[t]
          err == [i \in {1, 2} |-> Decode(log[i].stderr).text]
          branch == <<GetDefault(req[t].args, "branch1", "HEAD"),
                      GetDefault(req[t].args, "branch2", "origin/main")>>
      IN  /\ pc[t] = "done"
          /\ IF log[1].returncode = 0 /\ log[2].returncode = 0
               THEN /\ ~envelope[t].isError
                    /\ \A i \in {1, 2} :
                         Contains(envelope[t].text,
                                  CommitsHeader(branch[i]) \o Decode(log[i].stdout).text)
               ELSE envelope[t] = Err(Lit("[x] Git branch diff failed:\n")
                                        \o (IF err[1] # <<>> THEN err[1] ELSE err[2]))

(***************************************************************************)
(* Startup: the sentinel check against an install root that other          *)
(* processes change, then listing and calls over the open transport.       *)
(***************************************************************************)
StartupRequests ==
  {Request("git_undo", [NoArgs EXCEPT !["confirm"] = c]) : c \in {Absent, Bool(TRUE)}}
    \cup {Request("git_status", NoArgs)}

NextStartup ==
  \/ Main
  \/ \E s \in ScriptNames : RemoveScript(s)
  \/ \E s \in ScriptNames : RestoreScript(s)
  \/ ListTools
  \/ \E t \in Tasks, r \in StartupRequests, sp \in SpawnChoices : CallTool(t, r, sp)
  \/ \E t \in Tasks, o \in Outcomes(MaxBytes), sp \in SpawnChoices : ChildExit(t, o, sp)
  \/ \E t \in Tasks : SendResult(t)

SpecStartup == Init /\ [][NextStartup]_vars

\* Nothing has been served: no listing answered, no call taken.
NothingServed ==
  /\ ~listed
  /\ \A t \in Tasks : pc[t] = "idle" /\ req[t] = NoRequest /\ lookups[t] = <<>> /\ attempts[t] = <<>>

\* A step leaves "starting" for "serving" if the sentinel is there and for
\* "exited" if it is not, and no step leaves "serving" or "exited".
SentinelDecides ==
  /\ (server = "starting" /\ server' # "starting") =>
       (IF "git-undo" \in scripts THEN server' = "serving" ELSE server' = "exited")
  /\ server # "starting" => server' = server

\* C14: the sentinel git-undo is checked once, at startup: if it is absent
\* the process exits with status 1 and stays exited, the transport is never
\* opened and no list_tools or call_tool request is served; the transport is
\* opened only by the step whose check found the sentinel, and while the
\* transport is not open nothing has been served.
C14_TransportOnlyAfterSentinel ==
  /\ [](server # "serving" => NothingServed)
  /\ [](server = "exited" <=> exit_status = <<1>>)
  /\ [][SentinelDecides]_vars

C14_Witness ==
  /\ server = "exited"
  /\ exit_status = <<1>>
  /\ "git-undo" \in scripts

(***************************************************************************)
(* Concurrent calls: two call slots served by one event loop.              *)
(***************************************************************************)
ConcTasks == {1, 2}
ConcRequests ==
  {Request("git_undo", [NoArgs EXCEPT !["confirm"] = c]) : c \in {Absent, Bool(TRUE)}}
    \cup {Request("git_check_dup", [NoArgs EXCEPT !["remote_branch"] = Str("dev")]),
          Request("git_find_file", NoArgs)}
\* A child's outcomes: either exit code, stdout "a" or not valid UTF-8, stderr empty or "a".
ConcOutcomes ==
  {CompletedProcess(rc, out, err) :
     rc \in ExitCodes, out \in {<<Byte(97)>>, <<Byte(255)>>}, err \in {<<>>, <<Byte(97)>>}}

InitConc ==
  /\ server = "starting"
  /\ scripts \in {fs \in SUBSET ScriptNames : Cardinality(ScriptNames \ fs) <= MaxMissing}
  /\ pc = [t \in ConcTasks |-> "idle"]
  /\ req = [t \in ConcTasks |-> NoRequest]
  /\ lookups = [t \in ConcTasks |-> <<>>]
  /\ attempts = [t \in ConcTasks |-> <<>>]
  /\ child = [t \in ConcTasks |-> NoChild]
  /\ results = [t \in ConcTasks |-> <<>>]
  /\ caught = [t \in ConcTasks |-> NoExc]
  /\ envelope = [t \in ConcTasks |-> NoEnv]
  /\ exit_status = <<>>
  /\ listed = FALSE
  /\ consumed = [t \in ConcTasks |-> FALSE]

NextConc ==
  \/ Main
  \/ \E s \in ScriptNames : RemoveScript(s)
  \/ \E s \in ScriptNames : RestoreScript(s)
  \/ \E t \in ConcTasks, r \in ConcRequests, sp \in SpawnChoices : CallTool(t, r, sp)
  \/ \E t \in ConcTasks, o \in ConcOutcomes, sp \in SpawnChoices : ChildReturns(t, o, sp)
  \/ \E t \in ConcTasks : SendResult(t)

SpecConc == InitConc /\ [][NextConc]_vars

\* What a call owns: its request, what its lookups found, its spawns and its
\* children's outcomes.
Own(t) == <<req[t], lookups[t], attempts[t], results[t]>>
\* What a call has come to: its position, child, caught exception and envelope.
Fate(t) == <<pc[t], child[t], caught[t], envelope[t]>>

ChildReadsStdin(t) ==
  /\ pc[t] = "wait"
  /\ child[t].stdin = "INHERIT"
  /\ ~consumed[t]
  /\ consumed' = [consumed EXCEPT ![t] = TRUE]
  /\ UNCHANGED <<server, scripts, pc, req, lookups, attempts, child, results, caught, envelope,
                 exit_status, listed>>

NextStdin ==
  \/ Main
  \/ \E t \in Tasks, r \in Requests, sp \in SpawnChoices : CallTool(t, r, sp)
  \/ \E t \in Tasks : ChildReadsStdin(t)
  \/ \E t \in Tasks, o \in Outcomes(MaxBytes), sp \in SpawnChoices : ChildExit(t, o, sp)
  \/ \E t \in Tasks : SendResult(t)

SpecStdin == InitOutput /\ [][NextStdin]_vars

\* C16: a child started with no stdin payload does not have the bridge's
\* inbound stream as its stdin and never consumes bytes from it.
C16_ChildNeverReadsTransport ==
  \A t \in Tasks :
    (pc[t] = "wait" /\ child[t].input = <<>>) =>
      /\ child[t].stdin # "INHERIT"
      /\ ~consumed[t]
====
